---- MODULE Spec2Model ----
(***************************************************************************)
(* Model of the SDLC agent (zvrva/coding-agent): the state codec of        *)
(* sdlc_agent/state.py, and the fix / review invocations of                *)
(* sdlc_agent/agent_code.py and sdlc_agent/agent_review.py acting on the   *)
(* state comment of a pull request through sdlc_agent/github.py.           *)
(*                                                                         *)
(* Text is a sequence of one-character strings, so that the regular        *)
(* expression and the JSON reader of the codec work on characters.         *)
(***************************************************************************)
EXTENDS Integers, Sequences, FiniteSets, TLC

\* ------------------------------------------------------------------------
\* Bounds of the model (not program constants)
\* ------------------------------------------------------------------------
MaxCfgIter == 3
MaxRuns == 3
MaxInt == 2
MaxQuality == 1
MaxAdvances == 4
MaxRepoFiles == 4
BigRepoFiles == 13
MaxTextLen == 4
MaxPathSegs == 3

\* ------------------------------------------------------------------------
\* Text helpers
\* ------------------------------------------------------------------------
\* str.isspace for the characters of the model's alphabet (regex \s)
IsSpace(c) == c \in {" ", "\n", "\t", "\r"}

\* whitespace skipped by the JSON reader
IsJsonWs(c) == c \in {" ", "\n", "\t", "\r"}

Digits == <<"0","1","2","3","4","5","6","7","8","9">>
IsDigit(c) == \E d \in 1..10 : Digits[d] = c
DigitVal(c) == (CHOOSE d \in 1..10 : Digits[d] = c) - 1

\* text[i..] starts with the literal lit
StartsAt(text, i, lit) ==
    /\ i >= 1
    /\ i + Len(lit) - 1 <= Len(text)
    /\ \A k \in 1..Len(lit) : text[i + k - 1] = lit[k]

\* first position >= i that does not hold whitespace (Len+1 if none)
RECURSIVE SkipSpace(_, _)
SkipSpace(text, i) ==
    IF i <= Len(text) /\ IsSpace(text[i]) THEN SkipSpace(text, i + 1) ELSE i

\* decimal rendering of a natural number
RECURSIVE NatToChars(_)
NatToChars(n) ==
    IF n < 10 THEN <<Digits[n + 1]>>
    ELSE NatToChars(n \div 10) \o <<Digits[(n % 10) + 1]>>

\* str(int) / json.dumps(int)
IntToChars(n) == IF n < 0 THEN <<"-">> \o NatToChars(0 - n) ELSE NatToChars(n)

\* ------------------------------------------------------------------------
\* state.py : constants and the State record
\* ------------------------------------------------------------------------
STATE_MARKER == <<"S","D","L","C","_","A","G","E","N","T","_","S","T","A","T","E">>

K_target_repo == <<"t","a","r","g","e","t","_","r","e","p","o">>
K_source_issue_url == <<"s","o","u","r","c","e","_","i","s","s","u","e","_","u","r","l">>
K_iteration == <<"i","t","e","r","a","t","i","o","n">>
K_max_iterations == <<"m","a","x","_","i","t","e","r","a","t","i","o","n","s">>
K_last_verdict == <<"l","a","s","t","_","v","e","r","d","i","c","t">>
K_created_at == <<"c","r","e","a","t","e","d","_","a","t">>

V_pending == <<"p","e","n","d","i","n","g">>
V_in_progress == <<"i","n","_","p","r","o","g","r","e","s","s">>
V_pending_review == <<"p","e","n","d","i","n","g","_","r","e","v","i","e","w">>
V_approve == <<"a","p","p","r","o","v","e">>
V_changes_requested == <<"c","h","a","n","g","e","s","_","r","e","q","u","e","s","t","e","d">>
V_unknown == <<"u","n","k","n","o","w","n">>

State(tr, url, it, mx, lv, ca) ==
    [target_repo |-> tr, source_issue_url |-> url, iteration |-> it,
     max_iterations |-> mx, last_verdict |-> lv, created_at |-> ca]

\* JSON values of the model: strings, integers and null
JStr(s) == [t |-> "str", s |-> s, n |-> 0]
JInt(n) == [t |-> "int", s |-> <<>>, n |-> n]
JNull == [t |-> "null", s |-> <<>>, n |-> 0]

new_state(target_repo, source_issue_url, max_iterations, now) ==
    State(target_repo, source_issue_url, 0, max_iterations, V_pending, now)

next_iteration_minus(state, verdict) ==
    [state EXCEPT !.iteration = state.iteration - 1, !.last_verdict = verdict]

next_iteration_by_two(state, verdict) ==
    [state EXCEPT !.iteration = state.iteration + 2, !.last_verdict = verdict]

next_iteration(state, verdict) ==
    [state EXCEPT !.iteration = state.iteration + 1, !.last_verdict = verdict]

can_iterate_le(state) == state.iteration <= state.max_iterations

can_iterate(state) == state.iteration < state.max_iterations

_state_to_dict(state) ==
    << <<K_target_repo, JStr(state.target_repo)>>,
       <<K_source_issue_url, JStr(state.source_issue_url)>>,
       <<K_iteration, JInt(state.iteration)>>,
       <<K_max_iterations, JInt(state.max_iterations)>>,
       <<K_last_verdict, JStr(state.last_verdict)>>,
       <<K_created_at, JStr(state.created_at)>> >>

\* ------------------------------------------------------------------------
\* json.dumps(obj, ensure_ascii=True, separators=(",", ":"))
\* ------------------------------------------------------------------------
JsonEscapeChar(c) ==
    CASE c = "\"" -> <<"\\", "\"">>
      [] c = "\\" -> <<"\\", "\\">>
      [] c = "\n" -> <<"\\", "n">>
      [] c = "\r" -> <<"\\", "r">>
      [] c = "\t" -> <<"\\", "t">>
      [] OTHER -> <<c>>

RECURSIVE JsonEscape(_)
JsonEscape(s) ==
    IF s = <<>> THEN <<>> ELSE JsonEscapeChar(Head(s)) \o JsonEscape(Tail(s))

JsonString(s) == <<"\"">> \o JsonEscape(s) \o <<"\"">>

JsonValue(v) ==
    CASE v.t = "str" -> JsonString(v.s)
      [] v.t = "int" -> IntToChars(v.n)
      [] OTHER -> <<"n","u","l","l">>

RECURSIVE JsonMembers(_)
JsonMembers(items) ==
    IF items = <<>> THEN <<>>
    ELSE JsonString(items[1][1]) \o <<":">> \o JsonValue(items[1][2])
         \o (IF Len(items) > 1 THEN <<",">> ELSE <<>>)
         \o JsonMembers(Tail(items))

json_dumps(items) == <<"{">> \o JsonMembers(items) \o <<"}">>

render_state(state) ==
    <<"<","!","-","-"," ">> \o STATE_MARKER \o <<":"," ">>
    \o json_dumps(_state_to_dict(state)) \o <<" ","-","-",">">>

\* ------------------------------------------------------------------------
\* _STATE_RE = <!--\s*SDLC_AGENT_STATE:\s*(\{.*?\})\s*-->   (re.DOTALL)
\* ------------------------------------------------------------------------
MarkerColon == STATE_MARKER \o <<":">>
CommentOpen == <<"<","!","-","-">>
CommentClose == <<"-","-",">">>

\* position of the "{" that opens group 1 when the pattern is tried at i, 0 if
\* the prefix <!--\s*SDLC_AGENT_STATE:\s*\{ does not match there
ReOpenBrace(text, i) ==
    IF ~StartsAt(text, i, CommentOpen) THEN 0
    ELSE LET j1 == SkipSpace(text, i + Len(CommentOpen)) IN
         IF ~StartsAt(text, j1, MarkerColon) THEN 0
         ELSE LET j2 == SkipSpace(text, j1 + Len(MarkerColon)) IN
              IF j2 <= Len(text) /\ text[j2] = "{" THEN j2 ELSE 0

\* "}" at e closes group 1: it is followed by \s*-->
ReCloseAt(text, e) ==
    /\ e <= Len(text)
    /\ text[e] = "}"
    /\ StartsAt(text, SkipSpace(text, e + 1), CommentClose)

NoMatch == [found |-> FALSE, payload |-> <<>>]

MinOf(S) == CHOOSE x \in S : \A y \in S : x <= y

\* the positions where group 1 can end
ReCloses(text) == {e \in 1..Len(text) : ReCloseAt(text, e)}

\* the lazy .*? stops at the first "}" after the opening brace b that lets the
\* rest of the pattern match
ReLazyClose(closes, b) == MinOf({e \in closes : e > b})

\* _STATE_RE.search(text): group 1 of the leftmost match, as [found, payload]
StateReSearch(text) ==
    LET closes == ReCloses(text)
        starts == {i \in 1..Len(text) :
                     /\ ReOpenBrace(text, i) # 0
                     /\ \E e \in closes : e > ReOpenBrace(text, i)}
    IN IF starts = {} THEN NoMatch
       ELSE LET b == ReOpenBrace(text, MinOf(starts)) IN
            [found |-> TRUE, payload |-> SubSeq(text, b, ReLazyClose(closes, b))]

\* ------------------------------------------------------------------------
\* json.loads, for objects whose values are strings, integers, null or
\* booleans (the reader rejects what strict JSON rejects)
\* ------------------------------------------------------------------------
JBool(b) == [t |-> "bool", s |-> <<>>, n |-> IF b THEN 1 ELSE 0]

RECURSIVE SkipJsonWs(_, _)
SkipJsonWs(p, i) ==
    IF i <= Len(p) /\ IsJsonWs(p[i]) THEN SkipJsonWs(p, i + 1) ELSE i

JFail == [ok |-> FALSE, val |-> JNull, next |-> 0]

IsControl(c) == c \in {"\n", "\r", "\t"}

Unescape(e) ==
    CASE e = "n" -> "\n"
      [] e = "r" -> "\r"
      [] e = "t" -> "\t"
      [] OTHER -> e

\* py_scanstring (strict): p[i] is the first character after the opening quote
RECURSIVE ScanString(_, _, _)
ScanString(p, i, acc) ==
    IF i > Len(p) THEN JFail
    ELSE IF p[i] = "\"" THEN [ok |-> TRUE, val |-> JStr(acc), next |-> i + 1]
    ELSE IF p[i] = "\\" THEN
        IF i + 1 <= Len(p) /\ p[i + 1] \in {"\"", "\\", "/", "n", "r", "t"}
        THEN ScanString(p, i + 2, Append(acc, Unescape(p[i + 1])))
        ELSE JFail
    ELSE IF IsControl(p[i]) THEN JFail
    ELSE ScanString(p, i + 1, Append(acc, p[i]))

RECURSIVE ScanDigits(_, _, _)
ScanDigits(p, i, acc) ==
    IF i <= Len(p) /\ IsDigit(p[i])
    THEN ScanDigits(p, i + 1, 10 * acc + DigitVal(p[i]))
    ELSE [ok |-> TRUE, val |-> JInt(acc), next |-> i]

\* NUMBER_RE, integers only: -?(0|[1-9]\d*)
ScanNumber(p, i) ==
    LET neg == i <= Len(p) /\ p[i] = "-"
        d == IF neg THEN i + 1 ELSE i
    IN IF ~(d <= Len(p) /\ IsDigit(p[d])) THEN JFail
       ELSE LET r == IF p[d] = "0"
                      THEN [ok |-> TRUE, val |-> JInt(0), next |-> d + 1]
                      ELSE ScanDigits(p, d, 0)
            IN IF neg THEN [r EXCEPT !.val = JInt(0 - r.val.n)] ELSE r

\* scan_once for a scalar value at p[i]
ScanValue(p, i) ==
    IF i > Len(p) THEN JFail
    ELSE IF p[i] = "\"" THEN ScanString(p, i + 1, <<>>)
    ELSE IF StartsAt(p, i, <<"n","u","l","l">>) THEN [ok |-> TRUE, val |-> JNull, next |-> i + 4]
    ELSE IF StartsAt(p, i, <<"t","r","u","e">>) THEN [ok |-> TRUE, val |-> JBool(TRUE), next |-> i + 4]
    ELSE IF StartsAt(p, i, <<"f","a","l","s","e">>) THEN [ok |-> TRUE, val |-> JBool(FALSE), next |-> i + 5]
    ELSE ScanNumber(p, i)

DFail == [ok |-> FALSE, dict |-> <<>>, next |-> 0]

\* JSONObject: p[i] is where a key is expected; a later key overrides an earlier
RECURSIVE ScanMembers(_, _, _)
ScanMembers(p, i, acc) ==
    IF ~(i <= Len(p) /\ p[i] = "\"") THEN DFail
    ELSE LET k == ScanString(p, i + 1, <<>>) IN
         IF ~k.ok THEN DFail
         ELSE LET c == SkipJsonWs(p, k.next) IN
              IF ~(c <= Len(p) /\ p[c] = ":") THEN DFail
              ELSE LET v == ScanValue(p, SkipJsonWs(p, c + 1)) IN
                   IF ~v.ok THEN DFail
                   ELSE LET d == (k.val.s :> v.val) @@ acc
                            n == SkipJsonWs(p, v.next)
                        IN IF n > Len(p) THEN DFail
                           ELSE IF p[n] = "}" THEN [ok |-> TRUE, dict |-> d, next |-> n + 1]
                           ELSE IF p[n] = "," THEN ScanMembers(p, SkipJsonWs(p, n + 1), d)
                           ELSE DFail

\* json.loads(payload): [ok, dict]; ok = FALSE stands for JSONDecodeError
json_loads(p) ==
    LET i == SkipJsonWs(p, 1) IN
    IF ~(i <= Len(p) /\ p[i] = "{") THEN DFail
    ELSE LET j == SkipJsonWs(p, i + 1)
             r == IF j <= Len(p) /\ p[j] = "}"
                  THEN [ok |-> TRUE, dict |-> <<>>, next |-> j + 1]
                  ELSE ScanMembers(p, j, <<>>)
         IN IF r.ok /\ SkipJsonWs(p, r.next) = Len(p) + 1 THEN r ELSE DFail

\* ------------------------------------------------------------------------
\* state.py : _state_from_dict and parse_state
\* ------------------------------------------------------------------------
DefaultMaxIterations == 5

DictGet(d, key, default) == IF key \in DOMAIN d THEN d[key] ELSE default

\* str(x) of a decoded JSON value
PyStr(v) ==
    CASE v.t = "str" -> v.s
      [] v.t = "int" -> IntToChars(v.n)
      [] v.t = "bool" -> IF v.n = 1 THEN <<"T","r","u","e">> ELSE <<"F","a","l","s","e">>
      [] OTHER -> <<"N","o","n","e">>

\* int(x) of a decoded JSON value: [ok, n]; ok = FALSE stands for the
\* TypeError (null) or ValueError (text that is not an integer literal)
PyInt(v) ==
    CASE v.t = "int" -> [ok |-> TRUE, n |-> v.n]
      [] v.t = "bool" -> [ok |-> TRUE, n |-> v.n]
      [] v.t = "str" ->
            LET b == SkipSpace(v.s, 1)
                sgn == b <= Len(v.s) /\ v.s[b] \in {"-", "+"}
                d == IF sgn THEN b + 1 ELSE b
                r == ScanDigits(v.s, d, 0)
            IN IF r.next > d /\ SkipSpace(v.s, r.next) = Len(v.s) + 1
               THEN [ok |-> TRUE, n |-> IF sgn /\ v.s[b] = "-" THEN 0 - r.val.n ELSE r.val.n]
               ELSE [ok |-> FALSE, n |-> 0]
      [] OTHER -> [ok |-> FALSE, n |-> 0]

NoState == [kind |-> "none"]
RaisedState == [kind |-> "raised"]
SomeState(st) == [kind |-> "state", st |-> st]

_state_from_dict(data) ==
    LET it == PyInt(DictGet(data, K_iteration, JInt(0)))
        mx == PyInt(DictGet(data, K_max_iterations, JInt(DefaultMaxIterations)))
    IN IF ~it.ok \/ ~mx.ok THEN RaisedState
       ELSE SomeState(State(
                PyStr(DictGet(data, K_target_repo, JStr(<<>>))),
                PyStr(DictGet(data, K_source_issue_url, JStr(<<>>))),
                it.n,
                mx.n,
                PyStr(DictGet(data, K_last_verdict, JStr(V_unknown))),
                PyStr(DictGet(data, K_created_at, JStr(<<>>)))))

\* text or "": None and the empty text give the empty text
text_or_empty(v) == IF v.none THEN <<>> ELSE v.s

\* parse_state that falls back to the defaults when the JSON is not valid
parse_state_lenient(text) ==
    LET m == StateReSearch(text) IN
    IF ~m.found THEN NoState
    ELSE LET data == json_loads(m.payload) IN
         IF ~data.ok THEN _state_from_dict(<<>>)
         ELSE _state_from_dict(data.dict)

parse_state(text) ==
    LET m == StateReSearch(text) IN
    IF ~m.found THEN NoState
    ELSE LET data == json_loads(m.payload) IN
         IF ~data.ok THEN NoState
         ELSE _state_from_dict(data.dict)


\* ------------------------------------------------------------------------
\* github.py : the state comment among the comments of the pull request
\* ------------------------------------------------------------------------
Contains(body, lit) == \E i \in 1..Len(body) : StartsAt(body, i, lit)

\* find_state_comment: index of the first comment whose body holds the
\* marker, 0 for None
find_state_comment(comments) ==
    IF \E i \in 1..Len(comments) : Contains(comments[i], STATE_MARKER)
    THEN CHOOSE i \in 1..Len(comments) :
            /\ Contains(comments[i], STATE_MARKER)
            /\ \A k \in 1..(i - 1) : ~Contains(comments[k], STATE_MARKER)
    ELSE 0

\* the text after the last "/" of url
RECURSIVE LastPart(_)
LastPart(url) ==
    IF url = <<>> \/ url[Len(url)] = "/" THEN <<>>
    ELSE LastPart(SubSeq(url, 1, Len(url) - 1)) \o <<url[Len(url)]>>

\* RStrip(url): url.strip("/") at its end
RECURSIVE RStripSlash(_)
RStripSlash(url) ==
    IF url # <<>> /\ url[Len(url)] = "/" THEN RStripSlash(SubSeq(url, 1, Len(url) - 1))
    ELSE url

\* _parse_issue_url: the issue number of an issue URL, as [ok, n]; ok = FALSE
\* stands for the ValueError of a URL without "/" or without a number
_parse_issue_url(url) ==
    IF ~Contains(RStripSlash(url), <<"/">>) THEN [ok |-> FALSE, n |-> 0]
    ELSE PyInt(JStr(LastPart(RStripSlash(url))))

\* upsert_state_comment, second half: comment.edit(body) on the comment that
\* was found, or post_comment when none was found
\* upsert_state_comment that posts a new comment whatever the search found
WriteStateComment_post(comments, target, body) == Append(comments, body)

WriteStateComment(comments, target, body) ==
    IF target # 0 THEN [comments EXCEPT ![target] = body]
    ELSE Append(comments, body)

\* ------------------------------------------------------------------------
\* agent_code.py : _load_or_init_state
\* ------------------------------------------------------------------------
\* lines 384-389: the State parsed from the state comment of the open pull
\* request, NoState when there is no pull request, no comment or no blob
LoadedComment(comments, c) == IF c # 0 THEN parse_state(comments[c]) ELSE NoState

LoadedState(pr, comments) ==
    IF pr THEN LoadedComment(comments, find_state_comment(comments)) ELSE NoState

\* _load_or_init_state that ignores the loaded state
_load_or_init_state_fresh(loaded, target_repo, issue_url, max_iterations, now) ==
    SomeState(new_state(target_repo, issue_url, max_iterations, now))

\* loaded is LoadedState(pr, comments)
_load_or_init_state(loaded, target_repo, issue_url, max_iterations, now) ==
    IF loaded.kind = "none"
    THEN SomeState(new_state(target_repo, issue_url, max_iterations, now))
    ELSE loaded

\* ------------------------------------------------------------------------
\* llm.py : extract_json and its helpers
\* ------------------------------------------------------------------------
\* str.strip()
Strip(t) ==
    LET keep == {i \in 1..Len(t) : ~IsSpace(t[i])} IN
    IF keep = {} THEN <<>>
    ELSE SubSeq(t, MinOf(keep), CHOOSE x \in keep : \A y \in keep : y <= x)

\* the fence of three backticks; "^" stands for the backtick character, which
\* a string of this notation cannot hold
FENCE == <<"^","^","^">>

\* FENCE(?:json)?\s* tried at i (re.IGNORECASE): where group 1 starts, 0 when
\* there is no fence at i
FenceBody(t, i) ==
    IF ~StartsAt(t, i, FENCE) THEN 0
    ELSE IF \E tag \in {<<"j","s","o","n">>, <<"J","S","O","N">>} : StartsAt(t, i + 3, tag)
    THEN SkipSpace(t, i + 7)
    ELSE SkipSpace(t, i + 3)

\* _strip_code_fence: group 1 of the leftmost match of
\* FENCE(?:json)?\s*(.*?)\s*FENCE, stripped; found = FALSE for None
_strip_code_fence(t) ==
    LET closes(i) == {c \in FenceBody(t, i)..Len(t) : StartsAt(t, c, FENCE)}
        opens == {i \in 1..Len(t) : FenceBody(t, i) # 0 /\ closes(i) # {}}
    IN IF opens = {} THEN [found |-> FALSE, s |-> <<>>]
       ELSE [found |-> TRUE,
             s |-> Strip(SubSeq(t, FenceBody(t, MinOf(opens)),
                                MinOf(closes(MinOf(opens))) - 1))]

\* the loop of _extract_balanced_object at index i; start = 0 stands for None
RECURSIVE BalancedScan(_, _, _, _, _, _)
BalancedScan(t, i, depth, in_string, escape, start) ==
    IF i > Len(t) THEN [found |-> FALSE, s |-> <<>>]
    ELSE IF in_string THEN
        IF escape THEN BalancedScan(t, i + 1, depth, TRUE, FALSE, start)
        ELSE IF t[i] = "\\" THEN BalancedScan(t, i + 1, depth, TRUE, TRUE, start)
        ELSE BalancedScan(t, i + 1, depth, t[i] # "\"", FALSE, start)
    ELSE IF t[i] = "\"" THEN BalancedScan(t, i + 1, depth, TRUE, FALSE, start)
    ELSE IF t[i] = "{"
    THEN BalancedScan(t, i + 1, depth + 1, FALSE, FALSE, IF depth = 0 THEN i ELSE start)
    ELSE IF t[i] = "}" /\ depth > 0
    THEN IF depth = 1 /\ start # 0
         THEN [found |-> TRUE, s |-> SubSeq(t, start, i)]
         ELSE BalancedScan(t, i + 1, depth - 1, FALSE, FALSE, start)
    ELSE BalancedScan(t, i + 1, depth, FALSE, FALSE, start)

_extract_balanced_object(t) == BalancedScan(t, 1, 0, FALSE, FALSE, 0)

\* text.replace("\r\n", "\n")
RECURSIVE ReplaceCrLf(_, _)
ReplaceCrLf(t, i) ==
    IF i > Len(t) THEN <<>>
    ELSE IF StartsAt(t, i, <<"\r", "\n">>) THEN <<"\n">> \o ReplaceCrLf(t, i + 2)
    ELSE <<t[i]>> \o ReplaceCrLf(t, i + 1)

\* re.sub(r",\s*([}\]])", r"\1", text)
RECURSIVE StripTrailingCommas(_, _)
StripTrailingCommas(t, i) ==
    IF i > Len(t) THEN <<>>
    ELSE IF t[i] = "," /\ SkipSpace(t, i + 1) <= Len(t)
            /\ t[SkipSpace(t, i + 1)] \in {"}", "]"}
    THEN StripTrailingCommas(t, SkipSpace(t, i + 1))
    ELSE <<t[i]>> \o StripTrailingCommas(t, i + 1)

RECURSIVE _escape_newlines_in_strings(_, _, _, _)
_escape_newlines_in_strings(t, i, in_string, escape) ==
    IF i > Len(t) THEN <<>>
    ELSE IF in_string THEN
        IF escape THEN <<t[i]>> \o _escape_newlines_in_strings(t, i + 1, TRUE, FALSE)
        ELSE IF t[i] = "\\" THEN <<t[i]>> \o _escape_newlines_in_strings(t, i + 1, TRUE, TRUE)
        ELSE IF t[i] = "\"" THEN <<t[i]>> \o _escape_newlines_in_strings(t, i + 1, FALSE, FALSE)
        ELSE IF t[i] = "\n" THEN <<"\\", "n">> \o _escape_newlines_in_strings(t, i + 1, TRUE, FALSE)
        ELSE <<t[i]>> \o _escape_newlines_in_strings(t, i + 1, TRUE, FALSE)
    ELSE <<t[i]>> \o _escape_newlines_in_strings(t, i + 1, t[i] = "\"", FALSE)

_repair_json(t) ==
    _escape_newlines_in_strings(StripTrailingCommas(ReplaceCrLf(t, 1), 1), 1, FALSE, FALSE)

\* JSONArray of scalar values: p[i] is where an element is expected
RECURSIVE ScanElements(_, _, _)
ScanElements(p, i, acc) ==
    LET v == ScanValue(p, i) IN
    IF ~v.ok \/ SkipJsonWs(p, v.next) > Len(p) THEN [ok |-> FALSE, list |-> <<>>, next |-> 0]
    ELSE IF p[SkipJsonWs(p, v.next)] = "]"
    THEN [ok |-> TRUE, list |-> Append(acc, v.val), next |-> SkipJsonWs(p, v.next) + 1]
    ELSE IF p[SkipJsonWs(p, v.next)] = ","
    THEN ScanElements(p, SkipJsonWs(p, SkipJsonWs(p, v.next) + 1), Append(acc, v.val))
    ELSE [ok |-> FALSE, list |-> <<>>, next |-> 0]

\* json.loads(p) of any JSON text: [ok, kind, doc] with kind "dict", "list" or
\* "scalar"; ok = FALSE stands for JSONDecodeError
json_loads_value(p) ==
    LET i == SkipJsonWs(p, 1)
        bad == [ok |-> FALSE, kind |-> "none", doc |-> <<>>]
    IN IF i > Len(p) THEN bad
       ELSE IF p[i] = "{"
       THEN IF json_loads(p).ok
            THEN [ok |-> TRUE, kind |-> "dict", doc |-> json_loads(p).dict]
            ELSE bad
       ELSE IF p[i] = "["
       THEN LET j == SkipJsonWs(p, i + 1)
                r == IF j <= Len(p) /\ p[j] = "]"
                     THEN [ok |-> TRUE, list |-> <<>>, next |-> j + 1]
                     ELSE ScanElements(p, j, <<>>)
            IN IF r.ok /\ SkipJsonWs(p, r.next) = Len(p) + 1
               THEN [ok |-> TRUE, kind |-> "list", doc |-> r.list]
               ELSE bad
       ELSE LET v == ScanValue(p, i) IN
            IF v.ok /\ SkipJsonWs(p, v.next) = Len(p) + 1
            THEN [ok |-> TRUE, kind |-> "scalar", doc |-> v.val]
            ELSE bad

LlmError == [kind |-> "raised"]

\* lines 76-83: the first attempt that json.loads accepts
RECURSIVE FirstParse(_)
FirstParse(attempts) ==
    IF attempts = <<>> THEN LlmError
    ELSE IF json_loads_value(Head(attempts)).ok
    THEN [kind |-> "value", val |-> json_loads_value(Head(attempts))]
    ELSE FirstParse(Tail(attempts))

\* extract_json with an empty document in place of the final LlmError
extract_json_lenient(reply) ==
    [kind |-> "value", val |-> [ok |-> TRUE, kind |-> "dict", doc |-> <<>>]]

extract_json(reply) ==
    LET t == Strip(reply)
        fenced == _strip_code_fence(t)
        balanced == _extract_balanced_object(t)
        candidates ==
            <<t>>
            \o (IF Contains(t, FENCE) /\ fenced.found /\ fenced.s # <<>>
                THEN <<fenced.s>> ELSE <<>>)
            \o (IF balanced.found THEN <<balanced.s>> ELSE <<>>)
        attempts(c) == <<c, _repair_json(c)>>
    IN IF t = <<>> THEN LlmError
       ELSE FirstParse(attempts(candidates[1])
                       \o (IF Len(candidates) >= 2 THEN attempts(candidates[2]) ELSE <<>>)
                       \o (IF Len(candidates) >= 3 THEN attempts(candidates[3]) ELSE <<>>))

\* ------------------------------------------------------------------------
\* agent_code.py : the files put into the prompt (_select_context_files)
\* A repository is the sequence of the relative paths of its files in the
\* order of repo_path.rglob("*")
\* ------------------------------------------------------------------------
UpperCase == <<"A","B","C","D","E","F","G","H","I","J","K","L","M",
               "N","O","P","Q","R","S","T","U","V","W","X","Y","Z">>
LowerCase == <<"a","b","c","d","e","f","g","h","i","j","k","l","m",
               "n","o","p","q","r","s","t","u","v","w","x","y","z">>

\* str.lower()
Lower(t) ==
    [i \in 1..Len(t) |->
        IF \E k \in 1..26 : UpperCase[k] = t[i]
        THEN LowerCase[CHOOSE k \in 1..26 : UpperCase[k] = t[i]]
        ELSE t[i]]

\* Path.parts, as a set: the pieces of rel between the "/" from index i on
RECURSIVE PartsFrom(_, _, _)
PartsFrom(rel, i, cur) ==
    IF i > Len(rel) THEN {cur}
    ELSE IF rel[i] = "/" THEN {cur} \cup PartsFrom(rel, i + 1, <<>>)
    ELSE PartsFrom(rel, i + 1, Append(cur, rel[i]))

Parts(rel) == PartsFrom(rel, 1, <<>>)

\* Path.name
PathName(rel) == LastPart(rel)

\* rel ends with the literal
EndsWith(rel, lit) == StartsAt(rel, Len(rel) - Len(lit) + 1, lit)

_skip_path(rel) ==
    Parts(rel) \cap { <<".","v","e","n","v">>,
                      <<"_","_","p","y","c","a","c","h","e","_","_">>,
                      <<".","g","i","t">>,
                      <<"n","o","d","e","_","m","o","d","u","l","e","s">>,
                      <<".","t","o","x">>,
                      <<".","m","y","p","y","_","c","a","c","h","e">> } # {}

\* _collect_candidates: p.suffix in {".py", ".md", ".txt"} (the names of the
\* model have a stem, so the suffix is the ending of the name)
_collect_candidates(repo) ==
    LET keep(rel) ==
            /\ ~_skip_path(rel)
            /\ \E sfx \in {<<".","p","y">>, <<".","m","d">>, <<".","t","x","t">>} :
                  EndsWith(rel, sfx)
    IN SelectSeq(repo, keep)

\* _collect_mandatory_files: the *.py files under the three bases, base by base
_collect_mandatory_files(repo) ==
    LET under(base) ==
            LET keep(rel) ==
                    /\ StartsAt(rel, 1, base)
                    /\ EndsWith(rel, <<".","p","y">>)
                    /\ ~_skip_path(rel)
            IN SelectSeq(repo, keep)
    IN under(<<"p","y","t","h","o","n","_","u","t","i","l","s","_","d","e","m","o","/">>)
       \o under(<<"s","r","c","/","p","y","t","h","o","n","_","u","t","i","l","s","_",
                  "d","e","m","o","/">>)
       \o under(<<"t","e","s","t","s","/">>)

\* the characters that re.split(r"[^A-Za-z0-9_.-]+") keeps inside a token
IsTokenChar(c) ==
    \/ \E k \in 1..26 : c = UpperCase[k] \/ c = LowerCase[k]
    \/ IsDigit(c)
    \/ c \in {"_", ".", "-"}

\* re.split on the runs of other characters: the pieces of text from index i
\* on, cur being the piece read so far
RECURSIVE SplitTokens(_, _, _)
SplitTokens(text, i, cur) ==
    IF i > Len(text) THEN {cur}
    ELSE IF IsTokenChar(text[i]) THEN SplitTokens(text, i + 1, Append(cur, text[i]))
    ELSE {cur} \cup SplitTokens(text, i + 1, <<>>)

_issue_tokens(text) == { raw \in SplitTokens(Lower(text), 1, <<>>) : Len(raw) >= 3 }

_score_file(rel, issue_text) ==
    (IF StartsAt(rel, 1, <<"t","e","s","t","s","/">>) THEN 5 ELSE 0)
    + (IF StartsAt(rel, 1, <<"s","r","c","/">>) \/ Contains(rel, <<"/","s","r","c","/">>)
       THEN 3 ELSE 0)
    + 3 * Cardinality({token \in _issue_tokens(issue_text) : Contains(Lower(rel), token)})
    + (IF EndsWith(rel, <<".","p","y">>) THEN 2 ELSE 0)
    + (IF Lower(PathName(rel)) = <<"r","e","a","d","m","e",".","m","d">> THEN 1 ELSE 0)

\* sorted(paths, key=..., reverse=True), keys[i] being the key of paths[i]:
\* descending, equal keys keep their order
RECURSIVE SortedReverse(_, _)
SortedReverse(paths, keys) ==
    IF paths = <<>> THEN <<>>
    ELSE LET top == CHOOSE i \in 1..Len(paths) :
                        /\ \A k \in 1..Len(paths) : keys[k] <= keys[i]
                        /\ \A k \in 1..(i - 1) : keys[k] < keys[i]
             rest(q) == SubSeq(q, 1, top - 1) \o SubSeq(q, top + 1, Len(q))
         IN <<paths[top]>> \o SortedReverse(rest(paths), rest(keys))

\* lines 256-262: the paths in order, each at its first occurrence only
RECURSIVE Unique(_)
Unique(paths) ==
    IF paths = <<>> THEN <<>>
    ELSE LET init == Unique(SubSeq(paths, 1, Len(paths) - 1))
             last == paths[Len(paths)]
         IN IF \E k \in 1..Len(init) : init[k] = last THEN init ELSE Append(init, last)

MaxContextFiles == 12

\* _select_context_files cut to the first MaxContextFiles paths
_select_context_files_cut(repo, issue_text) ==
    LET candidates == _collect_candidates(repo)
        keys == [i \in 1..Len(candidates) |-> _score_file(candidates[i], issue_text)]
        selected == Unique(_collect_mandatory_files(repo)
                           \o SortedReverse(candidates, keys))
    IN SubSeq(selected, 1, IF Len(selected) <= MaxContextFiles
                           THEN Len(selected) ELSE MaxContextFiles)

\* _select_context_files with the candidates in traversal order
_select_context_files_unranked(repo, issue_text) ==
    Unique(_collect_mandatory_files(repo) \o _collect_candidates(repo))

\* line 263: selected[:12] if len(selected) <= 12 else selected
_select_context_files(repo, issue_text) ==
    LET candidates == _collect_candidates(repo)
        keys == [i \in 1..Len(candidates) |-> _score_file(candidates[i], issue_text)]
        selected == Unique(_collect_mandatory_files(repo)
                           \o SortedReverse(candidates, keys))
    IN IF Len(selected) <= MaxContextFiles
       THEN SubSeq(selected, 1, IF Len(selected) < MaxContextFiles
                                THEN Len(selected) ELSE MaxContextFiles)
       ELSE selected

\* ------------------------------------------------------------------------
\* agent_code.py : _apply_file_changes (agent_review.py has the same loop as
\* _apply_generated_tests). A directory is the sequence of its components
\* from the root; the clone holds no symbolic link.
\* ------------------------------------------------------------------------
\* the components of a path text; pathlib drops the empty ones
RECURSIVE PathSegments(_, _, _)
PathSegments(t, i, cur) ==
    IF i > Len(t) THEN (IF cur = <<>> THEN <<>> ELSE <<cur>>)
    ELSE IF t[i] = "/"
    THEN (IF cur = <<>> THEN <<>> ELSE <<cur>>) \o PathSegments(t, i + 1, <<>>)
    ELSE PathSegments(t, i + 1, Append(cur, t[i]))

\* repo_path / rel: an absolute rel replaces repo_path
JoinPath(repo_path, rel) ==
    IF rel # <<>> /\ rel[1] = "/" THEN PathSegments(rel, 1, <<>>)
    ELSE repo_path \o PathSegments(rel, 1, <<>>)

\* Path.resolve(): "." dropped, ".." drops the component before it
RECURSIVE Resolve(_, _)
Resolve(done, todo) ==
    IF todo = <<>> THEN done
    ELSE IF Head(todo) = <<".">> THEN Resolve(done, Tail(todo))
    ELSE IF Head(todo) = <<".", ".">>
    THEN Resolve(IF done = <<>> THEN done ELSE SubSeq(done, 1, Len(done) - 1), Tail(todo))
    ELSE Resolve(Append(done, Head(todo)), Tail(todo))

\* str(path) of a resolved path
RECURSIVE PathText(_)
PathText(path) ==
    IF path = <<>> THEN <<"/">>
    ELSE IF Len(path) = 1 THEN <<"/">> \o path[1]
    ELSE PathText(SubSeq(path, 1, Len(path) - 1)) \o <<"/">> \o path[Len(path)]

\* line 346: str(full_path).startswith(str(repo_path.resolve()))
IsWritable(full_path, repo_path) ==
    StartsAt(PathText(full_path), 1, PathText(Resolve(<<>>, repo_path)))

\* path a lies strictly above path b
IsAbove(a, b) == Len(a) < Len(b) /\ SubSeq(b, 1, Len(a)) = a

\* the loop of _apply_file_changes over items [path, content, none], none
\* standing for a content of None: [changed, written, raised], written being
\* the resolved targets of write_text. In a clone that holds nothing else,
\* mkdir raises FileExistsError below a file written before, and write_text
\* raises IsADirectoryError on the repository directory and on a directory
\* made for a file written before
RECURSIVE _apply_file_changes(_, _, _)
_apply_file_changes(repo_path, items, acc) ==
    IF items = <<>> THEN acc
    ELSE LET item == Head(items)
             rel == Strip(item.path)
             full_path == Resolve(<<>>, JoinPath(repo_path, rel))
         IN IF rel = <<>> \/ item.none
            THEN _apply_file_changes(repo_path, Tail(items), acc)
            ELSE IF ~IsWritable(full_path, repo_path)
            THEN _apply_file_changes(repo_path, Tail(items), acc)
            ELSE IF \/ full_path = Resolve(<<>>, repo_path)
                    \/ \E k \in 1..Len(acc.written) :
                          IsAbove(acc.written[k], full_path)
                          \/ IsAbove(full_path, acc.written[k])
            THEN [acc EXCEPT !.raised = TRUE]
            ELSE _apply_file_changes(repo_path, Tail(items),
                    [acc EXCEPT !.changed = Append(@, rel),
                                !.written = Append(@, full_path)])

\* ------------------------------------------------------------------------
\* agent_review.py : test run and verdict policy
\* ------------------------------------------------------------------------
\* _run_tests: the first command that exits 0 is returned, else the last one
_run_tests(codes) ==
    IF \E i \in 1..Len(codes) : codes[i] = 0 THEN 0 ELSE codes[Len(codes)]

ReviewResult(verdict, blocking, notes) ==
    [verdict |-> verdict, blocking |-> blocking, notes |-> notes]

\* _parse_review_result: coercion of the model's reply into a ReviewResult
_parse_review_result(data) == ReviewResult(data.verdict, data.blocking, data.notes)

Advisory(item) == <<"check manually", item>>

RECURSIVE AdvisoryNotes(_)
AdvisoryNotes(blocking) ==
    IF blocking = <<>> THEN <<>>
    ELSE <<Advisory(Head(blocking))>> \o AdvisoryNotes(Tail(blocking))

quality_ok(quality_results) == \A i \in 1..Len(quality_results) : quality_results[i] = 0

FinalResult_tests_only(result, test_code, quality_results) ==
    IF test_code # 0
    THEN ReviewResult(V_changes_requested, result.blocking, result.notes)
    ELSE result

\* the override that keeps the reply of the model when every check passed
FinalResult_keep_clean(result, test_code, quality_results) ==
    IF test_code # 0 \/ ~quality_ok(quality_results)
    THEN ReviewResult(V_changes_requested, result.blocking, result.notes)
    ELSE result

\* the override without the folding of blocking items into notes
FinalResult_no_fold(result, test_code, quality_results) ==
    IF test_code # 0 \/ ~quality_ok(quality_results)
    THEN ReviewResult(V_changes_requested, result.blocking, result.notes)
    ELSE ReviewResult(V_approve, result.blocking, result.notes)

\* the override of run_review_agent (test_run.result is never None: the
\* command list of _run_tests is never empty)
FinalResult(result, test_code, quality_results) ==
    LET tests_failed == test_code # 0
        tests_ok == test_code = 0
    IN IF tests_failed \/ ~quality_ok(quality_results)
       THEN ReviewResult(V_changes_requested, result.blocking, result.notes)
       ELSE IF tests_ok /\ quality_ok(quality_results) /\ result.blocking # <<>>
       THEN ReviewResult(V_approve, <<>>, result.notes \o AdvisoryNotes(result.blocking))
       ELSE IF tests_ok /\ quality_ok(quality_results) /\ result.blocking = <<>>
       THEN ReviewResult(V_approve, result.blocking, result.notes)
       ELSE result

ReviewUpdated_fresh(st, verdict) ==
    State(st.target_repo, st.source_issue_url, 0, st.max_iterations,
          verdict, st.created_at)

\* the recovered State written back as it was read
ReviewUpdated_same(st, verdict) == st

\* the State a review writes back: the recovered one with the final verdict
ReviewUpdated(st, verdict) ==
    State(st.target_repo, st.source_issue_url, st.iteration, st.max_iterations,
          verdict, st.created_at)

\* ------------------------------------------------------------------------
\* The world of one issue and its branch
\* ------------------------------------------------------------------------
Procs == {1, 2}
TargetRepo == <<"o","/","r">>
IssueUrl == <<"o","/","a","/","7">>
\* issue_number of the invocation: the number IssueUrl ends with
IssueNumber == 7
\* exit codes of commands: the code only tells zero from non-zero
ExitCodes == {0, 1}
NumTestCmds == 3

Verdicts == {V_approve, V_changes_requested}
BlockingLists == {<<>>, <<"b1", "b2">>}
NotesLists == {<<"n1">>}
QualityRuns == UNION { [1..n -> ExitCodes] : n \in 0..MaxQuality }

NoEffects ==
    [issue |-> <<>>, pr |-> <<>>, reviews |-> <<>>, dispatch |-> 0, llm |-> 0,
     files |-> 0, commits |-> 0, stateWrites |-> 0, payload |-> <<>>,
     dispatchErr |-> 0]

NoResult == [verdict |-> <<>>, blocking |-> <<>>, notes |-> <<>>]

IdleLoc ==
    [kind |-> "none", pr |-> FALSE, read |-> NoState, st |-> NoState,
     iteration |-> 0, outcome |-> "", tmp |-> FALSE, sent |-> FALSE,
     fx |-> NoEffects, target |-> 0, cached |-> FALSE, cbody |-> <<>>,
     issue |-> 0, tests |-> 0, quality |-> <<>>, model |-> NoResult,
     result |-> NoResult, cfg |-> 0]

\* ------------------------------------------------------------------------
\* Variables
\* ------------------------------------------------------------------------
VARIABLES
    argIn,        \* codec: the State handed to render_state
    text,         \* codec: the rendered comment body
    result,       \* codec: what parse_state returned
    stage,        \* codec: "init", "rendered", "parsed"; "doc", "decoded"
    docIn,        \* decode: how the text handed to parse_state was built
    advances,     \* advance: calls of next_iteration made so far
    replyIn,      \* reply: how the model's reply handed to extract_json was built
    repoIn,       \* context: the files of the cloned repository and the issue text
    prOpen,       \* an open pull request exists for the branch sdlc/issue-N
    prComments,   \* bodies of the marker comments of the pull request, oldest first
    fixRuns,      \* fix invocations started so far
    revRuns,      \* review invocations started so far
    settingsMax,  \* Settings.max_iterations (MAX_ITERATIONS of the deployment)
    pc,           \* per process: position in its invocation
    loc           \* per process: locals and effects of its invocation

codecVars == <<argIn, text, result, stage, docIn, advances, replyIn, repoIn>>
worldVars == <<prOpen, prComments, fixRuns, revRuns, settingsMax, pc, loc>>
vars == <<argIn, text, result, stage, docIn, advances, replyIn, repoIn,
          prOpen, prComments, fixRuns, revRuns,
          settingsMax, pc, loc>>

NoRepo == [files |-> <<>>, issue |-> <<>>]

NoReply == [pre |-> <<>>, fence |-> "off", body |-> "off", post |-> <<>>]

NoDoc == [shape |-> "off", it |-> <<>>, mx |-> <<>>, lv |-> <<>>]

CodecIdle ==
    /\ argIn = State(<<>>, <<>>, 0, 0, <<>>, <<>>)
    /\ docIn = NoDoc
    /\ advances = 0
    /\ replyIn = NoReply
    /\ repoIn = NoRepo
    /\ text = <<>>
    /\ result = NoState
    /\ stage = "off"

WorldInit ==
    /\ prOpen = FALSE
    /\ prComments = <<>>
    /\ fixRuns = 0
    /\ revRuns = 0
    /\ settingsMax \in 1..MaxCfgIter
    /\ pc = [p \in Procs |-> "idle"]
    /\ loc = [p \in Procs |-> IdleLoc]

\* ------------------------------------------------------------------------
\* agent_code.py : run_code_agent, one fix invocation of process p
\* ------------------------------------------------------------------------
Resting == {"idle", "done", "failed"}

\* the with-block of tempfile.TemporaryDirectory (agent_code.py 87,
\* agent_review.py 82) kept only while no exception leaves it
tmp_kept_on_raise(raised) == raised

\* does the working directory exist once the with-block of
\* tempfile.TemporaryDirectory is left, by a return or by an exception
\* (raised): the context manager removes it either way
tmp_after_exit(raised) == FALSE

\* _now_iso(): the clock of the invocation
Now == <<"t">> \o NatToChars(fixRuns)

\* lines 56-71 (and the entry of the TemporaryDirectory block, line 87): load
\* the state, stop on exhaustion, else advance the attempt counter.
FixBegin(p) ==
    /\ pc[p] \in Resting
    /\ fixRuns + revRuns < MaxRuns
    /\ fixRuns' = fixRuns + 1
    /\ \E loaded \in {LoadedState(prOpen, prComments)} :
       \E state \in {_load_or_init_state(loaded, TargetRepo, IssueUrl, settingsMax, Now)} :
          LET base == [IdleLoc EXCEPT !.kind = "fix", !.pr = prOpen, !.read = state,
                                          !.cfg = settingsMax]
          IN IF state.kind = "raised"
             THEN /\ pc' = [pc EXCEPT ![p] = "failed"]
                  /\ loc' = [loc EXCEPT ![p] = [base EXCEPT !.outcome = "error"]]
             ELSE IF ~can_iterate(state.st)
             THEN /\ pc' = [pc EXCEPT ![p] = "done"]
                  /\ loc' = [loc EXCEPT ![p] =
                          [base EXCEPT !.st = state,
                                       !.iteration = state.st.iteration,
                                       !.outcome = "max-iterations",
                                       !.fx.issue = <<"max-iterations">>]]
             ELSE \E advanced \in {next_iteration(state.st, V_in_progress)} :
                  /\ pc' = [pc EXCEPT ![p] = "fix_work"]
                  /\ loc' = [loc EXCEPT ![p] =
                          [base EXCEPT !.st = SomeState(advanced),
                                       !.iteration = advanced.iteration,
                                       !.tmp = TRUE]]
    /\ UNCHANGED <<codecVars, prOpen, prComments, revRuns, settingsMax>>

\* started from the command line / the issue workflow
FixOnIssue(p) == FixBegin(p)

\* started by the "issue_opened" event that the previous invocation dispatched
FixOnDispatch(p) == loc[p].sent /\ FixBegin(p)

\* lines 88-136: clone, build the context, ask the model, apply the files,
\* look for changes, commit; the outcome is what the collaborators produce.
\* "llm-error": extract_json (line 110) finds no JSON object in the reply and
\* raises LlmError, which nothing in run_code_agent catches
FixWork(p) ==
    /\ pc[p] = "fix_work"
    /\ \E outcome \in {"llm-error", "no-files", "no-changes", "no-commit", "ok"} :
        /\ loc' = [loc EXCEPT ![p].outcome = outcome,
                              ![p].fx.llm = @ + 1,
                              ![p].fx.files = IF outcome \in {"llm-error", "no-files"}
                                              THEN 0 ELSE 1,
                              ![p].fx.commits = IF outcome = "ok" THEN 1 ELSE 0,
                              ![p].tmp = IF outcome = "llm-error" THEN tmp_after_exit(TRUE) ELSE @]
        /\ pc' = [pc EXCEPT ![p] = CASE outcome = "llm-error" -> "failed"
                                     [] outcome = "ok" -> "fix_push"
                                     [] OTHER -> "fix_report"]
    /\ UNCHANGED <<codecVars, prOpen, prComments, fixRuns, revRuns, settingsMax>>

schedule_retry_gt(iteration, state) == ~(iteration > state.max_iterations)

\* schedule_retry, lines 73-75: is a dispatch attempted
schedule_retry(iteration, state) == ~(iteration >= state.max_iterations)

\* lines 113-136: report the soft failure on the issue and on the open pull
\* request, schedule the retry, return
FixReport(p) ==
    /\ pc[p] = "fix_report"
    /\ \E ok \in BOOLEAN :
        LET l == loc[p]
            retry == schedule_retry(l.iteration, l.st.st)
        IN loc' = [loc EXCEPT
                  ![p].sent = retry /\ ok,
                  ![p].fx.issue = @ \o <<l.outcome>>
                                    \o (IF retry /\ ~ok THEN <<"dispatch-failed">> ELSE <<>>),
                  ![p].fx.pr = IF l.pr THEN @ \o <<l.outcome>> ELSE @,
                  ![p].fx.dispatch = IF retry THEN @ + 1 ELSE @,
                  ![p].fx.payload = IF retry THEN @ \o <<IssueNumber>> ELSE @,
                  ![p].fx.dispatchErr = IF retry /\ ~ok THEN @ + 1 ELSE @,
                  ![p].tmp = tmp_after_exit(FALSE)]
    /\ pc' = [pc EXCEPT ![p] = "done"]
    /\ UNCHANGED <<codecVars, prOpen, prComments, fixRuns, revRuns, settingsMax>>

\* lines 138-146: push and create_or_update_pr
FixPush(p) ==
    /\ pc[p] = "fix_push"
    /\ prOpen' = TRUE
    /\ loc' = [loc EXCEPT ![p].pr = TRUE]
    /\ pc' = [pc EXCEPT ![p] = "fix_find"]
    /\ UNCHANGED <<codecVars, prComments, fixRuns, revRuns, settingsMax>>

\* line 148 and the first half of upsert_state_comment (github.py 105)
FixFind(p) ==
    /\ pc[p] = "fix_find"
    /\ loc' = [loc EXCEPT
           ![p].st = SomeState(next_iteration(loc[p].st.st, V_pending_review)),
           ![p].target = find_state_comment(prComments)]
    /\ pc' = [pc EXCEPT ![p] = "fix_write"]
    /\ UNCHANGED <<codecVars, prOpen, prComments, fixRuns, revRuns, settingsMax>>

\* second half of upsert_state_comment, then lines 150-153
FixWrite(p) ==
    /\ pc[p] = "fix_write"
    /\ prComments' = WriteStateComment(prComments, loc[p].target,
                                       render_state(loc[p].st.st))
    /\ loc' = [loc EXCEPT ![p].fx.stateWrites = @ + 1,
                          ![p].fx.pr = @ \o <<"run-report">>,
                          ![p].tmp = tmp_after_exit(FALSE)]
    /\ pc' = [pc EXCEPT ![p] = "done"]
    /\ UNCHANGED <<codecVars, prOpen, fixRuns, revRuns, settingsMax>>

\* ------------------------------------------------------------------------
\* agent_review.py : run_review_agent, one review invocation of process p
\* ------------------------------------------------------------------------
\* lines 61-82: read the pull request and its state comment, locate the issue
RevStart(p) ==
    /\ pc[p] \in Resting
    /\ prOpen
    /\ fixRuns + revRuns < MaxRuns
    /\ revRuns' = revRuns + 1
    /\ \E c \in {find_state_comment(prComments)} :
       \E body \in {IF c # 0 THEN prComments[c] ELSE <<>>} :
       \E st \in {IF c # 0 THEN parse_state(body) ELSE NoState} :
          LET base == [IdleLoc EXCEPT !.kind = "review", !.pr = TRUE,
                                      !.cfg = settingsMax,
                                      !.cached = (c # 0),
                                      !.cbody = body, !.read = st, !.st = st]
          IN IF st.kind = "raised"
             THEN /\ pc' = [pc EXCEPT ![p] = "failed"]
                  /\ loc' = [loc EXCEPT ![p] = [base EXCEPT !.outcome = "error"]]
             ELSE IF st.kind = "state" /\ st.st.source_issue_url # <<>>
                     /\ ~_parse_issue_url(st.st.source_issue_url).ok
          THEN /\ pc' = [pc EXCEPT ![p] = "failed"]
               /\ loc' = [loc EXCEPT ![p] = [base EXCEPT !.outcome = "error"]]
          ELSE /\ pc' = [pc EXCEPT ![p] = "rev_work"]
               /\ loc' = [loc EXCEPT ![p] =
                       [base EXCEPT !.issue =
                                (IF st.kind = "state" /\ st.st.source_issue_url # <<>>
                                 THEN _parse_issue_url(st.st.source_issue_url).n
                                 ELSE 0),
                                    !.tmp = TRUE]]
    /\ UNCHANGED <<codecVars, prOpen, prComments, fixRuns, settingsMax>>

\* lines 83-136: checks and tests in the working directory, the model's
\* verdict, the override
RevWork(p) ==
    /\ pc[p] = "rev_work"
    /\ \E codes \in [1..NumTestCmds -> ExitCodes], q \in QualityRuns,
          v \in Verdicts, b \in BlockingLists, n \in NotesLists :
        LET model == _parse_review_result([verdict |-> v, blocking |-> b, notes |-> n])
            t == _run_tests(codes)
        IN loc' = [loc EXCEPT ![p].tests = t,
                              ![p].quality = q,
                              ![p].model = model,
                              ![p].result = FinalResult(model, t, q),
                              ![p].fx.llm = @ + 1,
                              ![p].tmp = tmp_after_exit(FALSE)]
    /\ pc' = [pc EXCEPT ![p] = "rev_post"]
    /\ UNCHANGED <<codecVars, prOpen, prComments, fixRuns, revRuns, settingsMax>>

\* lines 138-154: post the review, re-read the cached comment body
RevPost(p) ==
    /\ pc[p] = "rev_post"
    /\ \E st \in {IF loc[p].cached THEN parse_state(loc[p].cbody) ELSE loc[p].st} :
       /\ loc' = [loc EXCEPT ![p].fx.reviews = @ \o <<loc[p].result.verdict>>,
                             ![p].st = st]
       /\ pc' = [pc EXCEPT ![p] = IF loc[p].cached /\ st.kind = "state"
                                  THEN "rev_find" ELSE "rev_finish"]
    /\ UNCHANGED <<codecVars, prOpen, prComments, fixRuns, revRuns, settingsMax>>

\* lines 155-163 and the first half of upsert_state_comment
RevFind(p) ==
    /\ pc[p] = "rev_find"
    /\ loc' = [loc EXCEPT ![p].target = find_state_comment(prComments)]
    /\ pc' = [pc EXCEPT ![p] = "rev_write"]
    /\ UNCHANGED <<codecVars, prOpen, prComments, fixRuns, revRuns, settingsMax>>

\* second half of upsert_state_comment
RevWrite(p) ==
    /\ pc[p] = "rev_write"
    /\ prComments' = WriteStateComment(prComments, loc[p].target,
            render_state(ReviewUpdated(loc[p].st.st, loc[p].result.verdict)))
    /\ loc' = [loc EXCEPT ![p].fx.stateWrites = @ + 1]
    /\ pc' = [pc EXCEPT ![p] = "rev_finish"]
    /\ UNCHANGED <<codecVars, prOpen, fixRuns, revRuns, settingsMax>>

\* line 170 with the counter compared by <= instead of <
review_dispatches_le(rr, st, issue) ==
    /\ rr.verdict = V_changes_requested
    /\ st.kind = "state"
    /\ st.st.iteration <= st.st.max_iterations
    /\ issue # 0

\* line 170: does the review escalate to the code-fix path
review_dispatches(rr, st, issue) ==
    /\ rr.verdict = V_changes_requested
    /\ st.kind = "state"
    /\ st.st.iteration < st.st.max_iterations
    /\ issue # 0

\* lines 165-175: attempt comment on the issue, escalation dispatch, return;
\* an exception of dispatch_event is not caught
RevFinish(p) ==
    /\ pc[p] = "rev_finish"
    /\ \E ok \in BOOLEAN :
        LET l == loc[p]
            located == l.st.kind = "state" /\ l.st.st.source_issue_url # <<>>
            send == review_dispatches(l.result, l.st, l.issue)
        IN /\ loc' = [loc EXCEPT
                  ![p].sent = send /\ ok,
                  ![p].fx.issue = IF located THEN @ \o <<"attempt">> ELSE @,
                  ![p].fx.dispatch = IF send THEN @ + 1 ELSE @,
                  ![p].fx.payload = IF send THEN @ \o <<l.issue>> ELSE @,
                  ![p].fx.dispatchErr = IF send /\ ~ok THEN @ + 1 ELSE @,
                  ![p].outcome = IF send /\ ~ok THEN "error" ELSE "reviewed"]
           /\ pc' = [pc EXCEPT ![p] = IF send /\ ~ok THEN "failed" ELSE "done"]
    /\ UNCHANGED <<codecVars, prOpen, prComments, fixRuns, revRuns, settingsMax>>

\* ------------------------------------------------------------------------
\* Hard failures and the environment
\* ------------------------------------------------------------------------
Working ==
    {"fix_work", "fix_report", "fix_push", "fix_find", "fix_write",
     "rev_work", "rev_post", "rev_find", "rev_write", "rev_finish"}

\* an external call (hosting API, model, command) raises: the exception leaves
\* the TemporaryDirectory block and the invocation
Fail(p) ==
    /\ pc[p] \in Working
    /\ pc' = [pc EXCEPT ![p] = "failed"]
    /\ loc' = [loc EXCEPT ![p].outcome = "error",
                          ![p].tmp = IF @ THEN tmp_after_exit(TRUE) ELSE @]
    /\ UNCHANGED <<codecVars, prOpen, prComments, fixRuns, revRuns, settingsMax>>

FixStep(p) ==
    \/ FixOnIssue(p)
    \/ FixOnDispatch(p)
    \/ FixWork(p)
    \/ FixReport(p)
    \/ FixPush(p)
    \/ FixFind(p)
    \/ FixWrite(p)

RevStep(p) ==
    \/ RevStart(p)
    \/ RevWork(p)
    \/ RevPost(p)
    \/ RevFind(p)
    \/ RevWrite(p)
    \/ RevFinish(p)

\* Spec: invocations of one issue run one after the other (process 1)
Init == CodecIdle /\ WorldInit

Next == FixStep(1) \/ RevStep(1) \/ Fail(1)

Spec == Init /\ [][Next]_vars

\* SpecReconf: as Spec, and MAX_ITERATIONS of the environment is changed
\* between invocations (config.py reads it at the start of each invocation)
Reconfigure ==
    /\ pc[1] \in Resting
    /\ \E m \in (1..MaxCfgIter) \ {settingsMax} : settingsMax' = m
    /\ UNCHANGED <<codecVars, prOpen, prComments, fixRuns, revRuns, pc, loc>>

NextReconf == FixStep(1) \/ RevStep(1) \/ Fail(1) \/ Reconfigure

SpecReconf == Init /\ [][NextReconf]_vars

\* SpecConc: a duplicate trigger starts one more fix invocation (process 2)
\* that overlaps the invocations of process 1
FixOverlap(p) == pc[p] = "idle" /\ FixOnIssue(p)

NextConc ==
    \/ FixStep(1)
    \/ RevStep(1)
    \/ Fail(1)
    \/ FixOverlap(2)
    \/ FixWork(2)
    \/ FixReport(2)
    \/ FixPush(2)
    \/ FixFind(2)
    \/ FixWrite(2)
    \/ Fail(2)

SpecConc == Init /\ [][NextConc]_vars

\* SpecLoop: the first fix invocation is started by the issue, every later
\* one only by the event the previous invocation dispatched; a review runs
\* only on the pull request a fix has just pushed
FixFirst(p) == fixRuns = 0 /\ FixOnIssue(p)

RevOnPush(p) == loc[p].kind = "fix" /\ loc[p].outcome = "ok" /\ RevStart(p)

NextLoop ==
    \/ FixFirst(1)
    \/ FixOnDispatch(1)
    \/ FixWork(1)
    \/ FixReport(1)
    \/ FixPush(1)
    \/ FixFind(1)
    \/ FixWrite(1)
    \/ RevOnPush(1)
    \/ RevWork(1)
    \/ RevPost(1)
    \/ RevFind(1)
    \/ RevWrite(1)
    \/ RevFinish(1)
    \/ Fail(1)

SpecLoop == Init /\ [][NextLoop]_vars

\* ------------------------------------------------------------------------
\* Codec: render_state followed by parse_state on bounded State values
\* ------------------------------------------------------------------------
CodecStrings ==
    { <<>>,
      <<"o","/","r">>,
      <<"}","-","-",">">>,
      <<"a","}"," ","-","-",">","b">>,
      <<"\"","\\","\n">> }

CodecInts == (0 - 1)..MaxInt

CodecStates ==
    { State(tr, url, it, mx, lv, ca) :
        tr \in CodecStrings, url \in CodecStrings, it \in CodecInts,
        mx \in CodecInts, lv \in CodecStrings, ca \in CodecStrings }

CodecInit ==
    /\ WorldInit
    /\ settingsMax = 1
    /\ argIn \in CodecStates
    /\ docIn = NoDoc
    /\ advances = 0
    /\ replyIn = NoReply
    /\ repoIn = NoRepo
    /\ text = <<>>
    /\ result = NoState
    /\ stage = "init"

Render ==
    /\ stage = "init"
    /\ text' = render_state(argIn)
    /\ stage' = "rendered"
    /\ UNCHANGED <<argIn, result, docIn, advances, replyIn, repoIn>>
    /\ UNCHANGED worldVars

Parse ==
    /\ stage = "rendered"
    /\ result' = parse_state(text)
    /\ stage' = "parsed"
    /\ UNCHANGED <<argIn, text, docIn, advances, replyIn, repoIn>>
    /\ UNCHANGED worldVars

CodecNext == Render \/ Parse

SpecCodec == CodecInit /\ [][CodecNext]_vars

\* ------------------------------------------------------------------------
\* Decode: parse_state on comment bodies that no render_state produced
\* ------------------------------------------------------------------------
\* JSON texts of the value of "iteration"; <<>> stands for a missing key
DocIterations ==
    { <<>>, <<"1">>, <<"\"","2","\"">>, <<"\"","x","\"">>,
      <<"n","u","l","l">>, <<"t","r","u","e">> }

DocMaxes ==
    { <<>>, <<"3">>, <<"\"","4","\"">>, <<"n","u","l","l">>,
      <<"\"","a","b","c","\"">> }

DocVerdicts == { <<>>, <<"\"","a","p","p","r","o","v","e","\"">> }

DocShapes == {"marker", "plain", "empty", "none", "truncated", "invalid"}

Docs ==
    { [shape |-> sh, it |-> it, mx |-> mx, lv |-> lv] :
        sh \in DocShapes, it \in DocIterations, mx \in DocMaxes,
        lv \in DocVerdicts }

\* "key":raw, or nothing when the key is missing
DocMember(key, raw) ==
    IF raw = <<>> THEN <<>> ELSE << <<"\"">> \o key \o <<"\"", ":">> \o raw >>

RECURSIVE JoinComma(_)
JoinComma(parts) ==
    IF parts = <<>> THEN <<>>
    ELSE IF Len(parts) = 1 THEN parts[1]
    ELSE parts[1] \o <<",">> \o JoinComma(Tail(parts))

DocPayload(doc) ==
    <<"{">> \o JoinComma(DocMember(K_iteration, doc.it)
                           \o DocMember(K_max_iterations, doc.mx)
                           \o DocMember(K_last_verdict, doc.lv)) \o <<"}">>

DocOpen == <<"<","!","-","-"," ">> \o STATE_MARKER \o <<":"," ">>

\* the comment body of a document
DocText(doc) ==
    LET pl == DocPayload(doc) IN
    CASE doc.shape = "marker" -> DocOpen \o pl \o <<" ","-","-",">">>
      [] doc.shape = "plain" -> <<"s","t","a","t","e",":"," ">> \o pl
      [] doc.shape = "truncated" ->
            DocOpen \o SubSeq(pl, 1, Len(pl) \div 2) \o <<" ","-","-",">">>
      [] doc.shape = "invalid" ->
            DocOpen \o SubSeq(pl, 1, Len(pl) - 1) \o <<",","}"," ","-","-",">">>
      [] OTHER -> <<>>

DecodeInit ==
    /\ WorldInit
    /\ argIn = State(<<>>, <<>>, 0, 0, <<>>, <<>>)
    /\ docIn \in Docs
    /\ advances = 0
    /\ replyIn = NoReply
    /\ repoIn = NoRepo
    /\ text = DocText(docIn)
    /\ result = NoState
    /\ stage = "doc"

Decode ==
    /\ stage = "doc"
    /\ result' = parse_state(text_or_empty([none |-> docIn.shape = "none", s |-> text]))
    /\ stage' = "decoded"
    /\ UNCHANGED <<argIn, text, docIn, advances, replyIn, repoIn>>
    /\ UNCHANGED worldVars

SpecDecode == DecodeInit /\ [][Decode]_vars

\* ------------------------------------------------------------------------
\* Advance: next_iteration called again and again on one State
\* ------------------------------------------------------------------------
AdvVerdicts == {V_in_progress, V_pending_review, V_approve, V_changes_requested}

\* new states, and states that already made k attempts
AdvStates ==
    { [new_state(TargetRepo, IssueUrl, mx, <<"t","0">>) EXCEPT !.iteration = k] :
        k \in 0..MaxInt, mx \in 1..MaxCfgIter }

AdvInit ==
    /\ WorldInit
    /\ settingsMax = 1
    /\ argIn \in AdvStates
    /\ docIn = NoDoc
    /\ text = argIn.last_verdict
    /\ result = SomeState(argIn)
    /\ stage = "adv"
    /\ advances = 0
    /\ replyIn = NoReply
    /\ repoIn = NoRepo

Advance ==
    /\ stage = "adv"
    /\ advances < MaxAdvances
    /\ \E verdict \in AdvVerdicts :
         /\ result' = SomeState(next_iteration(result.st, verdict))
         /\ text' = verdict
    /\ advances' = advances + 1
    /\ UNCHANGED <<argIn, stage, docIn, replyIn, repoIn>>
    /\ UNCHANGED worldVars

SpecAdvance == AdvInit /\ [][Advance]_vars

\* ------------------------------------------------------------------------
\* Reply: extract_json and _extract_balanced_object on replies of the model
\* ------------------------------------------------------------------------
\* prose before the body: none, plain, with an inch mark, with braces, quoted
ReplyPres ==
    { <<>>, <<"o","k"," ">>, <<"5","\""," ">>, <<"{","x","}"," ">>,
      <<"\"","a","\""," ">> }

ReplyPosts == { <<>>, <<" ","e","n","d">> }

ReplyFences == {"none", "bare", "json", "js"}

ReplyBodies ==
    {"obj", "objbrace", "comma_nl", "list_nl", "array", "number", "string",
     "true", "null", "prose", "empty", "blank"}

BodyText(body) ==
    CASE body = "obj" -> <<"{","\"","a","\"",":","1","}">>
      [] body = "objbrace" -> <<"{","\"","a","\"",":","\"","}","\"","}">>
      [] body = "comma_nl" -> <<"{","\"","s","\"",":","\"","x","\n","y","\"",",","}">>
      [] body = "list_nl" ->
            <<"{","\"","s","\"",":","\"","[","1",",","\n","]","\"",",","}">>
      [] body = "array" -> <<"[","1",",","2","]">>
      [] body = "number" -> <<"7">>
      [] body = "string" -> <<"\"","s","\"">>
      [] body = "true" -> <<"t","r","u","e">>
      [] body = "null" -> <<"n","u","l","l">>
      [] body = "prose" -> <<"n","o">>
      [] body = "blank" -> <<" ">>
      [] OTHER -> <<>>

FenceOpen(fence) ==
    CASE fence = "bare" -> FENCE \o <<"\n">>
      [] fence = "json" -> FENCE \o <<"j","s","o","n","\n">>
      [] fence = "js" -> FENCE \o <<"j","s","\n">>
      [] OTHER -> <<>>

ReplyText(r) ==
    r.pre \o FenceOpen(r.fence) \o BodyText(r.body)
    \o (IF r.fence = "none" THEN <<>> ELSE <<"\n">> \o FENCE) \o r.post

ReplyInit ==
    /\ WorldInit
    /\ settingsMax = 1
    /\ argIn = State(<<>>, <<>>, 0, 0, <<>>, <<>>)
    /\ docIn = NoDoc
    /\ advances = 0
    /\ repoIn = NoRepo
    /\ replyIn \in [pre : ReplyPres, fence : ReplyFences, body : ReplyBodies,
                     post : ReplyPosts]
    /\ text = ReplyText(replyIn)
    /\ result = NoState
    /\ stage = "reply"

ExtractJson ==
    /\ stage = "reply"
    /\ result' = extract_json(text)
    /\ stage' = "extracted"
    /\ UNCHANGED <<argIn, text, docIn, advances, replyIn, repoIn>>
    /\ UNCHANGED worldVars

BalancedObject ==
    /\ stage = "reply"
    /\ result' = _extract_balanced_object(text)
    /\ stage' = "balanced"
    /\ UNCHANGED <<argIn, text, docIn, advances, replyIn, repoIn>>
    /\ UNCHANGED worldVars

SpecReply == ReplyInit /\ [][ExtractJson \/ BalancedObject]_vars

\* ------------------------------------------------------------------------
\* Context: _select_context_files and _score_file on bounded repositories
\* ------------------------------------------------------------------------
FileKinds ==
    {"test_py", "test_md", "test_json", "src_py", "nested_src", "readme",
     "sub_readme", "pkg_py", "srcpkg_py", "test_git_py", "txt"}

\* the relative path of the i-th file of the traversal, by its kind
PathOf(kind, i) ==
    LET n == NatToChars(i) IN
    CASE kind = "test_py" -> <<"t","e","s","t","s","/","t">> \o n \o <<".","p","y">>
      [] kind = "test_md" -> <<"t","e","s","t","s","/","n">> \o n \o <<".","m","d">>
      [] kind = "test_json" ->
            <<"t","e","s","t","s","/","d">> \o n \o <<".","j","s","o","n">>
      [] kind = "src_py" -> <<"s","r","c","/","f","o","o">> \o n \o <<".","p","y">>
      [] kind = "nested_src" ->
            <<"l","i","b","/","s","r","c","/","b">> \o n \o <<".","p","y">>
      [] kind = "readme" -> <<"R","E","A","D","M","E",".","m","d">>
      [] kind = "sub_readme" ->
            <<"d","o","c","s">> \o n \o <<"/","r","e","a","d","m","e",".","m","d">>
      [] kind = "pkg_py" ->
            <<"p","y","t","h","o","n","_","u","t","i","l","s","_","d","e","m","o","/","u">>
            \o n \o <<".","p","y">>
      [] kind = "srcpkg_py" ->
            <<"s","r","c","/","p","y","t","h","o","n","_","u","t","i","l","s","_",
              "d","e","m","o","/","v">> \o n \o <<".","p","y">>
      [] kind = "test_git_py" ->
            <<"t","e","s","t","s","/",".","g","i","t","/","x">> \o n \o <<".","p","y">>
      [] OTHER -> <<"b","a","r">> \o n \o <<".","t","x","t">>

\* the kinds that the longer of the small repositories mix
CoreKinds == {"test_py", "test_md", "src_py", "pkg_py", "sub_readme", "txt"}

\* the kinds that the longest of the small repositories mix
MixKinds == {"test_py", "src_py", "txt"}

\* small repositories of every mix of kinds, and big ones of test files
\* followed by source files (or the other way round)
RepoKinds ==
    LET small == UNION { [1..n -> FileKinds] : n \in 0..(MaxRepoFiles - 2) }
                 \cup [1..(MaxRepoFiles - 1) -> CoreKinds]
                 \cup [1..MaxRepoFiles -> MixKinds]
        big == { [i \in 1..BigRepoFiles |-> IF (i <= k) = first THEN "test_py" ELSE "src_py"] :
                   k \in 0..BigRepoFiles, first \in BOOLEAN }
    IN { ks \in small \cup big :
           \A i, j \in 1..Len(ks) : (ks[i] = "readme" /\ ks[j] = "readme") => i = j }

IssueTexts ==
    { <<>>,
      <<"f","i","x"," ","f","o","o">>,
      <<"f","o","o",".","b","a","r"," ","t","e","s","t","s">>,
      <<"F","O","O"," ","a","b">> }

ContextInit ==
    /\ WorldInit
    /\ settingsMax = 1
    /\ argIn = State(<<>>, <<>>, 0, 0, <<>>, <<>>)
    /\ docIn = NoDoc
    /\ advances = 0
    /\ replyIn = NoReply
    /\ \E ks \in RepoKinds, issue \in IssueTexts :
          repoIn = [files |-> [i \in 1..Len(ks) |-> PathOf(ks[i], i)], issue |-> issue]
    /\ text = <<>>
    /\ result = <<>>
    /\ stage = "repo"

SelectContext ==
    /\ stage = "repo"
    /\ result' = _select_context_files(repoIn.files, repoIn.issue)
    /\ stage' = "selected"
    /\ UNCHANGED <<argIn, text, docIn, advances, replyIn, repoIn>>
    /\ UNCHANGED worldVars

ScoreFiles ==
    /\ stage = "repo"
    /\ result' = [i \in 1..Len(repoIn.files) |-> _score_file(repoIn.files[i], repoIn.issue)]
    /\ stage' = "scored"
    /\ UNCHANGED <<argIn, text, docIn, advances, replyIn, repoIn>>
    /\ UNCHANGED worldVars

SpecContext == ContextInit /\ [][SelectContext \/ ScoreFiles]_vars

\* ------------------------------------------------------------------------
\* Repair: _escape_newlines_in_strings and _repair_json on short texts
\* ------------------------------------------------------------------------
RepairChars == {"\"", "\\", "\n", ",", "}", "a"}

RepairTexts == UNION { [1..n -> RepairChars] : n \in 0..MaxTextLen }

RepairInit ==
    /\ WorldInit
    /\ settingsMax = 1
    /\ argIn = State(<<>>, <<>>, 0, 0, <<>>, <<>>)
    /\ docIn = NoDoc
    /\ advances = 0
    /\ replyIn = NoReply
    /\ repoIn = NoRepo
    /\ text \in RepairTexts
    /\ result = <<>>
    /\ stage = "raw"

EscapeNewlines ==
    /\ stage = "raw"
    /\ result' = _escape_newlines_in_strings(text, 1, FALSE, FALSE)
    /\ stage' = "escaped"
    /\ UNCHANGED <<argIn, text, docIn, advances, replyIn, repoIn>>
    /\ UNCHANGED worldVars

RepairJson ==
    /\ stage = "raw"
    /\ result' = _repair_json(text)
    /\ stage' = "repaired"
    /\ UNCHANGED <<argIn, text, docIn, advances, replyIn, repoIn>>
    /\ UNCHANGED worldVars

SpecRepair == RepairInit /\ [][EscapeNewlines \/ RepairJson]_vars

\* ------------------------------------------------------------------------
\* Apply: _apply_file_changes on the paths a reply can name
\* ------------------------------------------------------------------------
\* the clone of repository "r" in the working directory "/w"
RepoDir == << <<"w">>, <<"r">> >>

PathSegs == { <<".", ".">>, <<".">>, <<"a">>, <<"r">>, <<"r", "x">> }

RECURSIVE JoinSlash(_)
JoinSlash(segs) ==
    IF Len(segs) = 1 THEN segs[1]
    ELSE segs[1] \o <<"/">> \o JoinSlash(Tail(segs))

\* relative and absolute paths of up to MaxPathSegs components, the empty
\* path, and a path with blanks around it
ReplyPaths ==
    LET rels == { JoinSlash(segs) :
                    segs \in UNION { [1..n -> PathSegs] : n \in 1..MaxPathSegs } }
    IN rels \cup { <<"/">> \o r : r \in rels } \cup { <<>>, <<" ", "a", " ">> }

ReplyItems == [path : ReplyPaths, content : {<<"c">>}, none : BOOLEAN]

\* replies that name one file, and replies that name two
ReplyFileLists ==
    { <<item>> : item \in ReplyItems }
    \cup { <<i1, i2>> : i1 \in { it \in ReplyItems : Len(it.path) <= 1 },
                        i2 \in { it \in ReplyItems : Len(it.path) <= 4 /\ ~it.none } }

ApplyInit ==
    /\ WorldInit
    /\ settingsMax = 1
    /\ argIn \in ReplyFileLists
    /\ docIn = NoDoc
    /\ advances = 0
    /\ replyIn = NoReply
    /\ repoIn = NoRepo
    /\ text = PathText(RepoDir)
    /\ result = [changed |-> <<>>, written |-> <<>>, raised |-> FALSE]
    /\ stage = "files"

ApplyFileChanges ==
    /\ stage = "files"
    /\ result' = _apply_file_changes(RepoDir, argIn, result)
    /\ stage' = "applied"
    /\ UNCHANGED <<argIn, text, docIn, advances, replyIn, repoIn>>
    /\ UNCHANGED worldVars

SpecApply == ApplyInit /\ [][ApplyFileChanges]_vars

\* ------------------------------------------------------------------------
\* Observations used by the properties
\* ------------------------------------------------------------------------
\* what a reader of the pull request recovers from its state comment
PersistedIn(comments) == LoadedComment(comments, find_state_comment(comments))

Persisted == PersistedIn(prComments)

\* the persisted attempt counter, 0 when no state is persisted
IterationOf(st) == IF st.kind = "state" THEN st.st.iteration ELSE 0

PersistedIteration == IterationOf(Persisted)

\* the attempt counter invocation p started from
ReadIteration(p) == IterationOf(loc[p].read)

SoftFailures == {"no-files", "no-changes", "no-commit"}

FixEnded(p, outcomes) ==
    pc[p] = "done" /\ loc[p].kind = "fix" /\ loc[p].outcome \in outcomes

\* ------------------------------------------------------------------------
\* Properties
\* ------------------------------------------------------------------------
\* C1: parse_state(render_state(s)) returns a State equal to s in all six
\* fields, for every State s, also when a string field holds "}" followed
\* by "-->".
RoundTrip == stage = "parsed" => result = SomeState(argIn)

\* C2: a successful fix invocation that started from persisted iteration k
\* (0 without prior state) leaves the persisted state with iteration k + 1 and
\* last_verdict "pending_review", and the pull request exists.
FixSuccessAdvancesByOne ==
    FixEnded(1, {"ok"}) =>
        /\ prOpen
        /\ Persisted.kind = "state"
        /\ Persisted.st.iteration = ReadIteration(1) + 1
        /\ Persisted.st.last_verdict = V_pending_review

\* C3: in every persisted state reached by fix and review invocations from a
\* fresh state, iteration <= max_iterations.
IterationWithinMax ==
    Persisted.kind = "state" => Persisted.st.iteration <= Persisted.st.max_iterations

\* C4: when every invocation after the first is started only by the dispatch
\* of the previous one, at most max_iterations fix invocations are started,
\* also when every fix ends in no-files, no-changes or no-commit.
LoopStops == fixRuns <= settingsMax

\* C5: a fix invocation that loads a state with iteration >= max_iterations
\* posts the exhaustion comment on the issue and does nothing else: no model
\* call, no file write, no commit, no state-comment write, no dispatch, and
\* the persisted state is the one it loaded.
ExhaustedFixIsInert ==
    (/\ loc[1].kind = "fix"
     /\ loc[1].read.kind = "state"
     /\ loc[1].read.st.iteration >= loc[1].read.st.max_iterations)
    => /\ pc[1] = "done"
       /\ loc[1].fx = [NoEffects EXCEPT !.issue = <<"max-iterations">>]
       /\ Persisted = loc[1].read

ExhaustedFixSeen ==
    /\ FixEnded(1, {"max-iterations"})
    /\ loc[1].read.st.iteration >= loc[1].read.st.max_iterations
    /\ loc[1].fx.issue = <<"max-iterations">>

SequentialMonotone ==
    [][\E after \in {prComments'} :
          \/ after = prComments
          \/ IterationOf(PersistedIn(after)) >= PersistedIteration]_vars

ReviewAfterFixSeen ==
    /\ pc[1] = "done"
    /\ loc[1].kind = "review"
    /\ loc[1].fx.stateWrites = 1
    /\ PersistedIteration > 0

SoftFailurePersistsAttempt ==
    FixEnded(1, SoftFailures) =>
        /\ Persisted.kind = "state"
        /\ Persisted.st = [loc[1].read.st EXCEPT !.iteration = @ + 1]

\* C10: a fix invocation that ended in no-files, no-changes or no-commit has
\* sent exactly one dispatch when the advanced counter is below
\* max_iterations and none otherwise, and has posted the reason on the issue
\* and, when a pull request was open, on the pull request.
SoftFailureRetries ==
    FixEnded(1, SoftFailures) =>
        /\ loc[1].fx.dispatch =
              (IF ReadIteration(1) + 1 < loc[1].read.st.max_iterations THEN 1 ELSE 0)
        /\ loc[1].fx.issue # <<>>
        /\ loc[1].fx.issue[1] = loc[1].outcome
        /\ loc[1].fx.pr = (IF loc[1].pr THEN <<loc[1].outcome>> ELSE <<>>)

SoftFailureRetrySeen ==
    /\ FixEnded(1, SoftFailures)
    /\ loc[1].pr
    /\ loc[1].fx.dispatch = 1
    /\ loc[1].fx.pr = <<loc[1].outcome>>

\* the review invocation of process p has returned, or its last call failed
ReviewEnded(p) ==
    /\ loc[p].kind = "review"
    /\ \/ pc[p] = "done"
       \/ pc[p] = "failed" /\ loc[p].fx.dispatchErr > 0

\* the three conditions under which a review escalates
EscalationDue(p) ==
    /\ loc[p].result.verdict = V_changes_requested
    /\ loc[p].read.kind = "state"
    /\ loc[p].read.st.iteration < loc[p].read.st.max_iterations
    /\ loc[p].read.st.source_issue_url = IssueUrl

UnparsableReply(p) == loc[p].kind = "fix" /\ loc[p].outcome = "llm-error"

\* C13: a fix invocation whose model reply cannot be parsed posts a comment
\* explaining the failure and schedules a fresh fix through the dispatch,
\* unless the advanced counter has reached max_iterations.
UnparsableReplyRetries ==
    UnparsableReply(1) =>
        /\ loc[1].fx.issue # <<>>
        /\ loc[1].fx.dispatch =
              (IF ReadIteration(1) + 1 < loc[1].read.st.max_iterations THEN 1 ELSE 0)

\* the invocation of process p is over, by return or by exception
Ended(p) == pc[p] \in {"done", "failed"} /\ loc[p].kind # "none"

\* comments and reviews the invocation of process p has written
Written(p) == loc[p].fx.issue \o loc[p].fx.pr \o loc[p].fx.reviews

\* C14: no invocation ends silently: whichever way a fix or review
\* invocation ends (exhaustion, soft failure, success, unusable model reply,
\* failed external call), it has written at least one comment or review.
NoSilentExit == \A p \in Procs : Ended(p) => Written(p) # <<>>

\* max_iterations and created_at of a persisted state
Frozen(st) == <<st.st.max_iterations, st.st.created_at>>

\* C15: once a state is persisted for the pull request, no fix or review
\* invocation changes its max_iterations or created_at, also when
\* MAX_ITERATIONS of the environment differs from one invocation to the next.
StateFrozen ==
    [][\E after \in {prComments'} :
         \/ after = prComments
         \/ \E old \in {Persisted} : \E new \in {PersistedIn(after)} :
               old.kind = "state" =>
                   new.kind = "state" /\ Frozen(new) = Frozen(old)]_vars

ReconfiguredWriteSeen ==
    /\ pc[1] = "done"
    /\ loc[1].fx.stateWrites = 1
    /\ loc[1].read.kind = "state"
    /\ loc[1].read.st.iteration > 0
    /\ loc[1].read.st.max_iterations # loc[1].cfg
    /\ Persisted.kind = "state"
    /\ Frozen(Persisted) = Frozen(loc[1].read)

\* C16: parse_state never raises, whatever the text: for a marker blob whose
\* JSON is well-formed but whose iteration or max_iterations has the wrong
\* type (not a number, null) it returns None or a State.
DecodeNeverRaises == stage = "decoded" => result.kind \in {"none", "state"}

\* C17: parse_state returns None for a text without a marker blob (the empty
\* text and None included) and for a text whose marker blob holds truncated
\* or invalid JSON.
DecodeAbsent ==
    (stage = "decoded"
        /\ docIn.shape \in {"plain", "empty", "none", "truncated", "invalid"})
    => result = NoState

InvalidBlobSeen ==
    /\ stage = "decoded"
    /\ docIn.shape = "invalid"
    /\ StateReSearch(text).found
    /\ ~json_loads(StateReSearch(text).payload).ok
    /\ result = NoState

\* C18: the keys missing from a decoded payload take their defaults:
\* iteration 0, last_verdict "unknown", the text fields "", and
\* max_iterations the configured maximum of the decoding invocation.
DecodeDefaults ==
    (stage = "decoded" /\ docIn.shape = "marker" /\ result.kind = "state") =>
        /\ docIn.it = <<>> => result.st.iteration = 0
        /\ docIn.lv = <<>> => result.st.last_verdict = V_unknown
        /\ result.st.target_repo = <<>>
        /\ result.st.source_issue_url = <<>>
        /\ result.st.created_at = <<>>
        /\ docIn.mx = <<>> => result.st.max_iterations = settingsMax

\* C19: next_iteration returns the record with iteration one higher and
\* last_verdict the verdict passed, every other field as it was; after n calls
\* from iteration k the counter is k + n, and from a new state can_iterate
\* holds before, and no longer after, max_iterations advances.
AdvanceExact ==
    stage = "adv" =>
        /\ result.st = [argIn EXCEPT !.iteration = argIn.iteration + advances,
                                     !.last_verdict = text]
        /\ argIn.iteration = 0 =>
              (can_iterate(result.st) <=> advances < argIn.max_iterations)

AdvancedToMaxSeen ==
    /\ stage = "adv"
    /\ argIn.iteration = 0
    /\ argIn.max_iterations = MaxCfgIter
    /\ advances = argIn.max_iterations
    /\ result.st.iteration = MaxCfgIter
    /\ ~can_iterate(result.st)

\* the review of process p has its final result, after a clean run: the
\* tests and every quality check exited 0
CleanRun(p) ==
    /\ loc[p].kind = "review"
    /\ loc[p].fx.llm > 0
    /\ loc[p].tests = 0
    /\ \A i \in DOMAIN loc[p].quality : loc[p].quality[i] = 0

ObjectBodies == {"obj", "objbrace"}

\* C21: extract_json recovers the object of a reply in which it is wrapped in
\* a fence of three backticks, with or without a language tag, with prose
\* before or after: the document returned is the strict parse of the object.
FencedObjectRecovered ==
    (stage = "extracted" /\ replyIn.fence # "none" /\ replyIn.body \in ObjectBodies)
    => /\ result.kind = "value"
       /\ result.val.kind = "dict"
       /\ result.val.doc = json_loads(BodyText(replyIn.body)).dict

\* C22: _extract_balanced_object returns the first top-level balanced span:
\* it starts at the first structural "{" and ends at the matching "}", braces
\* inside string literals do not count, also when the prose before the
\* object holds quote characters.
BalancedSpanIsObject ==
    (stage = "balanced" /\ replyIn.body \in ObjectBodies
        /\ ~Contains(replyIn.pre, <<"{">>))
    => result = [found |-> TRUE, s |-> BodyText(replyIn.body)]

\* the two-line text of the string value of a body that needs the repair
TwoLines(body) ==
    IF body = "comma_nl" THEN <<"x","\n","y">> ELSE <<"[","1",",","\n","]">>

\* C23: for a reply that is an object with a trailing comma and a literal
\* newline inside a string value, extract_json returns the document whose
\* string value is the same two-line text.
RepairKeepsContent ==
    (stage = "extracted" /\ replyIn.body \in {"comma_nl", "list_nl"}
        /\ replyIn.fence = "none" /\ replyIn.pre = <<>> /\ replyIn.post = <<>>)
    => /\ result.kind = "value"
       /\ result.val.kind = "dict"
       /\ result.val.doc = (<<"s">> :> JStr(TwoLines(replyIn.body)))

\* no part of the reply is JSON, as it is or repaired
NothingParses ==
    /\ replyIn.body \in {"prose", "empty", "blank"}
    /\ \/ replyIn.pre # <<"\"","a","\""," ">>
       \/ replyIn.body = "prose"
       \/ replyIn.fence # "none"
       \/ replyIn.post # <<>>

\* C24: when no candidate parses, as it is or after repair, extract_json
\* fails with LlmError and returns no value; so for the empty reply and the
\* reply of whitespace only.
UnparsableRaises ==
    (stage = "extracted" /\ NothingParses) => result = LlmError

AllCandidatesFailSeen ==
    /\ stage = "extracted"
    /\ replyIn.body = "prose"
    /\ replyIn.fence = "json"
    /\ replyIn.pre = <<"{","x","}"," ">>
    /\ _strip_code_fence(text).found
    /\ _extract_balanced_object(text).found
    /\ result = LlmError

\* C25: what extract_json returns is a key-value document: a reply that is a
\* bare array, number, string, true, false or null yields no other value.
ReturnsObjectOnly ==
    (stage = "extracted" /\ result.kind = "value") => result.val.kind = "dict"

\* C26: the selection returned by _select_context_files never has more than
\* 12 files, also for repositories with more than 12 candidate files or more
\* than 12 mandatory files.
SelectionAtMostTwelve == stage = "selected" => Len(result) <= MaxContextFiles

TestDir == <<"t","e","s","t","s","/">>

Selected(rel) == \E k \in 1..Len(result) : result[k] = rel

Place(rel) == CHOOSE i \in 1..Len(repoIn.files) : repoIn.files[i] = rel

Mandatory == _collect_mandatory_files(repoIn.files)

\* the selection after its mandatory part
Remaining == SubSeq(result, Len(Mandatory) + 1, Len(result))

Score(rel) == _score_file(rel, repoIn.issue)

\* C28: the selection of _select_context_files is the mandatory files first,
\* in the order of their traversal, then the remaining candidates in
\* descending score order, candidates of equal score in the order of the
\* traversal (the descending sort is stable); no file appears twice.
SelectionOrder ==
    stage = "selected" =>
        /\ \A a, b \in 1..Len(result) : result[a] = result[b] => a = b
        /\ Len(Mandatory) <= Len(result)
        /\ SubSeq(result, 1, Len(Mandatory)) = Mandatory
        /\ \A a, b \in 1..Len(Mandatory) :
              (a < b /\ \E base \in {TestDir, <<"s","r","c","/">>, <<"p","y","t","h","o","n">>} :
                          StartsAt(Mandatory[a], 1, base) /\ StartsAt(Mandatory[b], 1, base))
              => Place(Mandatory[a]) < Place(Mandatory[b])
        /\ { Remaining[k] : k \in 1..Len(Remaining) }
             = { rel \in { repoIn.files[i] : i \in 1..Len(repoIn.files) } :
                   /\ \E k \in 1..Len(_collect_candidates(repoIn.files)) :
                         _collect_candidates(repoIn.files)[k] = rel
                   /\ \A k \in 1..Len(Mandatory) : Mandatory[k] # rel }
        /\ \A a, b \in 1..Len(Remaining) :
              a < b =>
                \/ Score(Remaining[a]) > Score(Remaining[b])
                \/ /\ Score(Remaining[a]) = Score(Remaining[b])
                   /\ Place(Remaining[a]) < Place(Remaining[b])

\* a selection with a mandatory file in front, two remaining candidates of
\* equal score, and a remaining candidate moved ahead of an earlier one
RankedAfterMandatorySeen ==
    /\ stage = "selected"
    /\ Len(Mandatory) > 0
    /\ result[1] = Mandatory[1]
    /\ \E a, b \in 1..Len(Remaining) :
          a < b /\ Score(Remaining[a]) = Score(Remaining[b])
    /\ \E a, b \in 1..Len(Remaining) :
          a < b /\ Place(Remaining[a]) > Place(Remaining[b])

IsAlnum(c) == IsTokenChar(c) /\ c \notin {"_", ".", "-"}

\* the pieces of text between the characters that are not alphanumeric
RECURSIVE AlnumPieces(_, _, _)
AlnumPieces(t, i, cur) ==
    IF i > Len(t) THEN {cur}
    ELSE IF IsAlnum(t[i]) THEN AlnumPieces(t, i + 1, Append(cur, t[i]))
    ELSE {cur} \cup AlnumPieces(t, i + 1, <<>>)

\* the score the specification describes, case folded as the code folds it
ReferenceScore(rel, issue_text) ==
    (IF StartsAt(rel, 1, TestDir) THEN 5 ELSE 0)
    + (IF StartsAt(rel, 1, <<"s","r","c","/">>) \/ Contains(rel, <<"/","s","r","c","/">>)
       THEN 3 ELSE 0)
    + 3 * Cardinality({ token \in AlnumPieces(Lower(issue_text), 1, <<>>) :
                          Len(token) >= 3 /\ Contains(Lower(rel), token) })
    + (IF EndsWith(rel, <<".","p","y">>) THEN 2 ELSE 0)
    + (IF Lower(rel) = <<"r","e","a","d","m","e",".","m","d">> THEN 1 ELSE 0)

\* C29: _score_file equals the reference score: +5 under the test directory,
\* +3 under a source directory, +3 for each distinct lowercase issue token of
\* length at least 3 (issue text split on every non-alphanumeric character)
\* that is a substring of the relative path, +2 for a source-language file,
\* +1 only for a readme file at the top level, matched by name whatever its
\* case.
ScoreIsReference ==
    stage = "scored" =>
        \A i \in 1..Len(repoIn.files) :
            result[i] = ReferenceScore(repoIn.files[i], repoIn.issue)

\* C30: the working directory created by a fix or review invocation exists
\* only during that invocation: on every exit path after its creation (normal
\* return, early return on no-files, no-changes or no-commit, exception from
\* a model, hosting or command call) it has been removed when the invocation
\* ends.
WorkdirScoped == \A p \in Procs : pc[p] \in Resting => ~loc[p].tmp

\* a fix invocation that committed in its working directory and then ended
\* by an exception
WorkdirGoneAfterException ==
    /\ pc[1] = "failed"
    /\ loc[1].kind = "fix"
    /\ loc[1].fx.commits = 1
    /\ ~loc[1].tmp

RECURSIVE NewlinesEscaped(_, _, _, _)
NewlinesEscaped(t, i, in_string, escape) ==
    IF i > Len(t) THEN <<>>
    ELSE IF ~in_string
    THEN <<t[i]>> \o NewlinesEscaped(t, i + 1, t[i] = "\"", FALSE)
    ELSE (IF t[i] = "\n" THEN <<"\\", "n">> ELSE <<t[i]>>)
         \o NewlinesEscaped(t, i + 1, escape \/ t[i] # "\"",
                             ~escape /\ t[i] = "\\")

\* C32: _escape_newlines_in_strings replaces every literal newline inside a
\* double-quoted string literal by the two-character escape sequence and
\* leaves every newline outside string literals, and every other character,
\* untouched; a backslash-escaped quote inside a string does not end the
\* string.
EveryStringNewlineEscaped ==
    stage = "escaped" => result = NewlinesEscaped(text, 1, FALSE, FALSE)

StateComments(comments) ==
    { i \in 1..Len(comments) : Contains(comments[i], STATE_MARKER) }

\* the original statement of C34: the pull request never carries more than
\* one comment with the state marker, whatever the interleaving
AtMostOneStateComment == Cardinality(StateComments(prComments)) <= 1

\* C34: a comment with the state marker is added to the pull request only by
\* an upsert_state_comment whose own search found none, every other write
\* edits the first one in place, and there are never more state comments than
\* invocations that can overlap; two invocations that both searched while no
\* state comment existed leave two.
StateCommentAddedOnlyWhenNoneFound ==
    [][\A after \in {prComments'} :
          /\ Cardinality(StateComments(after)) <= Cardinality(Procs)
          /\ Cardinality(StateComments(after)) > Cardinality(StateComments(prComments))
               => \E p \in Procs : /\ pc[p] \in {"fix_write", "rev_write"}
                                    /\ pc'[p] # pc[p]
                                    /\ loc[p].target = 0
          /\ (after # prComments /\ StateComments(after) = StateComments(prComments))
               => \E p \in Procs : /\ pc[p] \in {"fix_write", "rev_write"}
                                    /\ pc'[p] # pc[p]
                                    /\ loc[p].target = find_state_comment(prComments)
                                    /\ loc[p].target # 0]_vars

\* two overlapping fix invocations that both searched before either wrote,
\* and both posted a state comment
DuplicateStateCommentSeen ==
    /\ FixEnded(1, {"ok"})
    /\ FixEnded(2, {"ok"})
    /\ loc[1].target = 0
    /\ loc[2].target = 0
    /\ Cardinality(StateComments(prComments)) = 2

\* C35: every file written by _apply_file_changes (and by
\* _apply_generated_tests) lies inside the cloned repository directory: for
\* every path of the reply, also one whose ".." components lead to a sibling
\* directory whose name begins with the name of the repository directory,
\* the entry is skipped or the resolved target is the repository directory
\* or a descendant of it.
WritesStayInsideRepo ==
    stage = "applied" =>
        \A k \in 1..Len(result.written) :
            /\ Len(result.written[k]) >= Len(RepoDir)
            /\ SubSeq(result.written[k], 1, Len(RepoDir)) = RepoDir

\* the characters of t from index i on that lie inside string literals, each
\* literal closed by its quote
RECURSIVE InsideStrings(_, _, _, _)
InsideStrings(t, i, in_string, escape) ==
    IF i > Len(t) THEN <<>>
    ELSE IF ~in_string THEN InsideStrings(t, i + 1, t[i] = "\"", FALSE)
    ELSE <<t[i]>> \o InsideStrings(t, i + 1, escape \/ t[i] # "\"",
                                    ~escape /\ t[i] = "\\")

\* C36: _repair_json changes nothing inside string literals except literal
\* newlines: the removal of trailing commas deletes only commas outside
\* every string literal, so a string value that holds a comma followed by "}"
\* or "]" has the same content before and after the repair.
RepairKeepsStrings ==
    stage = "repaired" =>
        InsideStrings(result, 1, FALSE, FALSE)
        = InsideStrings(_escape_newlines_in_strings(text, 1, FALSE, FALSE), 1, FALSE, FALSE)

====
